---- MODULE Spec2Model ----
(***************************************************************************)
(* Model of the Read Later plugin (src/main.ts): the timer-driven run()    *)
(* cycle over the documents of the "read later" folder, and the pure       *)
(* functions it is built from (fetchFeedEntries' filter, isBlacklisted,    *)
(* mergeEntriesWithContent, removeOldEntries).                             *)
(*                                                                         *)
(* Representation.  A JavaScript string is a sequence of one-character     *)
(* strings, so that contains/includes, startsWith, trimEnd, split and join *)
(* are computed character by character.  A time is a number of MINUTES     *)
(* since the epoch (the code counts milliseconds; every constant of the    *)
(* code is a whole number of minutes).  A Date is a record                 *)
(* [valid, t]: valid = FALSE is the Invalid Date, whose getTime() is NaN.  *)
(* An optional string (string | undefined) is a record [def, v].           *)
(* The two characters outside ASCII are written "U+2795" (heavy plus sign) *)
(* and "U+2705" (white heavy check mark): each is one element of a string. *)
(***************************************************************************)
EXTENDS Integers, Sequences, FiniteSets, TLC

VARIABLES
    clock,            \* the host's wall clock (Date.now()), in minutes
    docs,             \* folder.children: kind, front matter, content of each child
    cycles,           \* the invocations of run(): position and locals of each
    totalNewEntries,  \* ReadLaterPlugin.totalNewEntries
    notice,           \* the notifications (new Notice) of the latest step
    ended,            \* the invocation of run() that the latest step ended, and how
    ticks,            \* number of timer ticks so far
    call,             \* the pure-function specifications: input and result of a call
    inserted          \* history: the lines written so far, each with its document,
                      \* its link, and the now and the watermark of the cycle

vars == <<clock, docs, cycles, totalNewEntries, notice, ended, ticks, call, inserted>>

-----------------------------------------------------------------------------
(* Strings *)

WhiteSpace == {" ", "\n", "\t", "\r"}

RECURSIVE TrimEnd(_)
TrimEnd(s) ==
    IF s = <<>> THEN s
    ELSE IF s[Len(s)] \in WhiteSpace THEN TrimEnd(SubSeq(s, 1, Len(s) - 1))
    ELSE s

StartsWith(s, p) == Len(p) <= Len(s) /\ SubSeq(s, 1, Len(p)) = p

\* String.prototype.includes, and the host's alias String.prototype.contains
Includes(s, p) ==
    \E i \in 0..(Len(s) - Len(p)) : SubSeq(s, i + 1, i + Len(p)) = p

IndexOfChar(s, c) ==
    IF \E i \in 1..Len(s) : s[i] = c
    THEN CHOOSE i \in 1..Len(s) : s[i] = c /\ \A j \in 1..(i - 1) : s[j] # c
    ELSE 0

RECURSIVE Split(_, _)
Split(s, c) ==
    LET i == IndexOfChar(s, c) IN
    IF i = 0 THEN <<s>>
    ELSE <<SubSeq(s, 1, i - 1)>> \o Split(SubSeq(s, i + 1, Len(s)), c)

RECURSIVE Join(_, _)
Join(parts, c) ==
    IF Len(parts) = 0 THEN <<>>
    ELSE IF Len(parts) = 1 THEN parts[1]
    ELSE parts[1] \o <<c>> \o Join(Tail(parts), c)

UpperCase == <<"A", "B", "C", "D", "E", "F", "G", "H", "I", "J", "K", "L", "M",
               "N", "O", "P", "Q", "R", "S", "T", "U", "V", "W", "X", "Y", "Z">>
LowerCase == <<"a", "b", "c", "d", "e", "f", "g", "h", "i", "j", "k", "l", "m",
               "n", "o", "p", "q", "r", "s", "t", "u", "v", "w", "x", "y", "z">>

LowerChar(c) ==
    IF \E i \in 1..26 : UpperCase[i] = c
    THEN LowerCase[CHOOSE i \in 1..26 : UpperCase[i] = c]
    ELSE c

ToLowerCase(s) == [i \in 1..Len(s) |-> LowerChar(s[i])]

RECURSIVE Reverse(_)
Reverse(s) == IF s = <<>> THEN <<>> ELSE Reverse(Tail(s)) \o <<Head(s)>>

-----------------------------------------------------------------------------
(* Dates *)

MinutesPerHour == 60
MinutesPerDay == 1440

InvalidDate == [valid |-> FALSE, t |-> 0]
DateOf(t) == [valid |-> TRUE, t |-> t]

\* a.getTime() < b.getTime(): false as soon as one side is NaN
TimeLess(a, b) == a.valid /\ b.valid /\ a.t < b.t

Digits == <<"0", "1", "2", "3", "4", "5", "6", "7", "8", "9">>
Digit(n) == Digits[n + 1]
Pad2(n) == <<Digit((n \div 10) % 10), Digit(n % 10)>>
Pad4(n) == <<Digit((n \div 1000) % 10), Digit((n \div 100) % 10)>> \o Pad2(n % 100)

\* The proleptic Gregorian date of a day number (days since 1970-01-01),
\* as Date.prototype.toISOString computes it in UTC.
CivilFromDays(days) ==
    LET z   == days + 719468
        era == z \div 146097
        doe == z - era * 146097
        yoe == (doe - doe \div 1460 + doe \div 36524 - doe \div 146096) \div 365
        doy == doe - (365 * yoe + yoe \div 4 - yoe \div 100)
        mp  == (5 * doy + 2) \div 153
        d   == doy - (153 * mp + 2) \div 5 + 1
        m   == IF mp < 10 THEN mp + 3 ELSE mp - 9
        y   == yoe + era * 400 + (IF m <= 2 THEN 1 ELSE 0)
    IN  [y |-> y, m |-> m, d |-> d]

\* Date.prototype.toISOString of a valid date: YYYY-MM-DDTHH:mm:ss.sssZ
ToISOString(t) ==
    LET c   == CivilFromDays(t \div MinutesPerDay)
        mod == t % MinutesPerDay
    IN  Pad4(c.y) \o <<"-">> \o Pad2(c.m) \o <<"-">> \o Pad2(c.d) \o <<"T">>
        \o Pad2(mod \div MinutesPerHour) \o <<":">> \o Pad2(mod % MinutesPerHour)
        \o <<":", "0", "0", ".", "0", "0", "0", "Z">>

\* date.toISOString().split("T")[0]
IsoDay(t) == Split(ToISOString(t), "T")[1]

-----------------------------------------------------------------------------
(* Optional values and URLs *)

\* string | undefined
Undefined == [def |-> FALSE, v |-> <<>>]
Str(v) == [def |-> TRUE, v |-> v]
Truthy(o) == o.def /\ o.v # <<>>
\* o ?? ""
OrEmpty(o) == IF o.def THEN o.v ELSE <<>>

\* A URL string is kept as what new URL(...) makes of it: it parses or it
\* throws, and a parsed one has a hostname.  present = FALSE is the
\* undefined or empty feed.link.
NoUrl == [present |-> FALSE, valid |-> FALSE, hostname |-> <<>>]
BadUrl == [present |-> TRUE, valid |-> FALSE, hostname |-> <<>>]
Url(hostname) == [present |-> TRUE, valid |-> TRUE, hostname |-> hostname]

\* site.replace(/^www\./, "")
StripWww(site) ==
    IF StartsWith(site, <<"w", "w", "w", ".">>) THEN SubSeq(site, 5, Len(site)) ELSE site

-----------------------------------------------------------------------------
(* isBlacklisted *)

blacklistedURLs ==
    { <<"w", "w", "w", ".", "t", "h", "e", "a", "t", "l", "a", "n", "t", "i", "c", ".", "c", "o", "m">>,
      <<"w", "w", "w", ".", "w", "s", "j", ".", "c", "o", "m">>,
      <<"a", "r", "x", "i", "v", ".", "o", "r", "g">> }

blacklistedStrings == { <<"h", "i", "r", "i", "n", "g">> }

isBlacklisted(url, title) ==
    \/ /\ Truthy(url)
       /\ \E blacklisted \in blacklistedURLs : Includes(ToLowerCase(url.v), blacklisted)
    \/ /\ Truthy(title)
       /\ \E blacklisted \in blacklistedStrings : Includes(ToLowerCase(title.v), blacklisted)

-----------------------------------------------------------------------------
(* fetchFeedEntries *)

\* What request(feedURL) and extractFromXml(xml) give for one fetch:
\*   kind "reject"    request() rejects (network error, time-out)
\*   kind "empty"     request() resolves to an empty payload
\*   kind "malformed" extractFromXml() throws
\*   kind "noentries" extractFromXml() gives no feed or a feed without entries
\*   kind "feed"      a feed with its link and its entries in native order
\* A raw entry is [link, title, published]: link and title are optional
\* strings; published is an optional string, kept as the Date that
\* new Date(published) makes of it (an unparsable one is the Invalid Date).
Response(kind, link, entries) == [kind |-> kind, link |-> link, entries |-> entries]

\* entry.published when the feed gives none
Unpublished == [def |-> FALSE, v |-> InvalidDate]

\* new Date(entry.published ?? ""): new Date("") is the Invalid Date
EntryDate(published) == IF published.def THEN published.v ELSE InvalidDate

\* lines 141-149: the host name of feed.link, else of feedURL; the www. prefix dropped
SiteOf(feedLink, feedURL) ==
    IF feedLink.present /\ feedLink.valid THEN [threw |-> FALSE, site |-> feedLink.hostname]
    ELSE IF feedURL.valid THEN [threw |-> FALSE, site |-> feedURL.hostname]
    ELSE [threw |-> TRUE, site |-> <<>>]

\* A variant of OlderThan: an entry published at the watermark counts as older.
NotNewerThan(entryDate, lastSynced) ==
    entryDate.valid /\ lastSynced.valid /\ entryDate.t <= lastSynced.t

\* line 154: the entry is older than the watermark
OlderThan(entryDate, lastSynced) == TimeLess(entryDate, lastSynced)

\* lines 151-168: the entries that pass the watermark and the blacklist
RECURSIVE FilterEntries(_, _, _)
FilterEntries(raw, lastSynced, domain) ==
    IF raw = <<>> THEN <<>>
    ELSE LET entry == Head(raw)
             entryDate == EntryDate(entry.published)
             rest == FilterEntries(Tail(raw), lastSynced, domain)
         IN  IF OlderThan(entryDate, lastSynced) THEN rest
             ELSE IF isBlacklisted(entry.link, entry.title) THEN rest
             ELSE << [domain |-> domain,
                      link |-> OrEmpty(entry.link),
                      title |-> OrEmpty(entry.title),
                      date |-> entryDate] >> \o rest

fetchFeedEntries(feedURL, lastSynced, response) ==
    IF response.kind \in {"reject", "malformed"} THEN [threw |-> TRUE, entries |-> <<>>]
    ELSE IF response.kind \in {"empty", "noentries"} THEN [threw |-> FALSE, entries |-> <<>>]
    ELSE LET s == SiteOf(response.link, feedURL) IN
         IF s.threw THEN [threw |-> TRUE, entries |-> <<>>]
         ELSE [threw |-> FALSE,
               entries |-> FilterEntries(response.entries, lastSynced, StripWww(s.site))]

-----------------------------------------------------------------------------
(* mergeEntriesWithContent *)

IncompleteMarker == <<"-", " ", "[", " ", "]">>
SiteOpen == <<"[", "s", "i", "t", "e", ":", ":", " ">>
AddedMark == <<" ", "U+2795", " ">>

\* A variant of NewEntry: an empty title is left empty.
NewEntryTitleAsIs(entry) ==
    LET day == IsoDay(entry.date.t)
    IN  <<"\n">> \o IncompleteMarker \o <<" ", "[">> \o entry.title \o <<"]", "(">> \o entry.link
        \o <<")", " ">> \o SiteOpen \o entry.domain \o <<"]">> \o AddedMark \o day \o <<"\n">>

\* line 186: the checklist line of an entry, between two newlines
NewEntry(entry) ==
    LET day == IsoDay(entry.date.t)
        title == IF entry.title # <<>> THEN entry.title ELSE day
    IN  <<"\n">> \o IncompleteMarker \o <<" ", "[">> \o title \o <<"]", "(">> \o entry.link
        \o <<")", " ">> \o SiteOpen \o entry.domain \o <<"]">> \o AddedMark \o day \o <<"\n">>

\* A variant of AlreadyPresent: the test for the link is dropped.
NeverPresent(content, entry) == FALSE

\* A variant of AlreadyPresent: an empty link is never taken for present.
PresentUnlessEmpty(content, entry) ==
    entry.link # <<>> /\ Includes(content, entry.link)

\* line 176: the entry is taken for present
AlreadyPresent(content, entry) == Includes(content, entry.link)

\* lines 176-188: one turn of the loop.  toISOString() of the Invalid Date
\* throws a RangeError, which ends the function.
MergeStep(acc, entry) ==
    IF acc.threw THEN acc
    ELSE IF AlreadyPresent(acc.content, entry) THEN acc
    ELSE IF ~entry.date.valid THEN [acc EXCEPT !.threw = TRUE]
    ELSE [content |-> TrimEnd(acc.content) \o NewEntry(entry),
          count |-> acc.count + 1,
          threw |-> FALSE]

RECURSIVE MergeLoop(_, _)
MergeLoop(acc, entries) ==
    IF entries = <<>> THEN acc
    ELSE MergeLoop(MergeStep(acc, Head(entries)), Tail(entries))

\* A variant of mergeEntriesWithContent: the array is not reversed.
mergeInGivenOrder(entries, content) ==
    LET acc == MergeLoop([content |-> content, count |-> 0, threw |-> FALSE], entries)
    IN  [content |-> IF acc.threw THEN content ELSE acc.content,
         count |-> IF acc.threw THEN 0 ELSE acc.count,
         threw |-> acc.threw,
         entries |-> entries]

\* lines 173-196.  entries.reverse() reverses the caller's array in place:
\* `entries` of the result is the array as the call leaves it.  `count` is
\* what the call adds to totalNewEntries (nothing when it throws).
mergeEntriesWithContent(entries, content) ==
    LET reversed == Reverse(entries)
        acc == MergeLoop([content |-> content, count |-> 0, threw |-> FALSE], reversed)
    IN  [content |-> IF acc.threw THEN content ELSE acc.content,
         count |-> IF acc.threw THEN 0 ELSE acc.count,
         threw |-> acc.threw,
         entries |-> reversed]

-----------------------------------------------------------------------------
(* removeOldEntries *)

CompleteMarker == <<"-", " ", "[", "x", "]">>
DoneMark == <<"U+2705", " ">>

\* A variant of KeepLine: any completion date keeps a completed line.
KeepLineAnyDate(entry, currentDate) ==
    \/ ~StartsWith(entry, CompleteMarker)
    \/ Includes(entry, DoneMark)

\* lines 222-225: the line is kept
KeepLine(entry, currentDate) ==
    \/ ~StartsWith(entry, CompleteMarker)
    \/ Includes(entry, DoneMark \o currentDate)

removeOldEntries(content, currentTime) ==
    LET currentDate == IsoDay(currentTime)
        entries == Split(content, "\n")
        cleanedEntries == SelectSeq(entries, LAMBDA entry : KeepLine(entry, currentDate))
    IN  Join(cleanedEntries, "\n")

-----------------------------------------------------------------------------
(* Values shared by the specifications *)

\* The clock at the start: 2024-01-01T23:00Z, one hour before the date changes.
T0 == 19723 * MinutesPerDay + 23 * MinutesPerHour

NoEnd == [how |-> "none", now |-> 0, hist |-> <<>>, summary |-> 0]
NoCall == [fn |-> "none"]

\* The plugin's state when no cycle has run, for the specifications of one function.
PluginAtRest ==
    /\ clock = T0
    /\ docs = <<>>
    /\ cycles = <<>>
    /\ totalNewEntries = 0
    /\ notice = <<>>
    /\ ended = NoEnd
    /\ ticks = 0
    /\ inserted = {}

RECURSIVE SeqsUpTo(_, _)
\* the sequences over S of length at most n
SeqsUpTo(S, n) ==
    IF n = 0 THEN {<<>>}
    ELSE LET shorter == SeqsUpTo(S, n - 1)
         IN  shorter \cup {Append(q, x) : q \in shorter, x \in S}

-----------------------------------------------------------------------------
(* Specification of mergeEntriesWithContent: one call, then a second call  *)
(* on the result of the first with the same array.                         *)

MaxEntries == 3

Entry(link, title, date) == [domain |-> <<"d">>, link |-> link, title |-> title, date |-> date]

LinkA == <<"u", "/", "a">>
LinkAB == <<"u", "/", "a", "b">>
LinkC == <<"u", "/", "c">>

MergeEntries ==
    { Entry(LinkA, <<"T">>, DateOf(T0 - 2 * MinutesPerDay)),   \* the oldest
      Entry(LinkAB, <<>>, DateOf(T0 - MinutesPerDay)),         \* no title; its link extends LinkA
      Entry(LinkC, <<"X">>, DateOf(T0)),                       \* the newest
      Entry(LinkA, <<"Y">>, DateOf(T0)),                       \* LinkA again
      Entry(<<>>, <<"T">>, DateOf(T0 - MinutesPerDay)),        \* no link
      Entry(<<"u", "/", "n">>, <<"T">>, InvalidDate) }         \* no publish date

MergeContents ==
    { <<>>,
      <<"#", " ", "h", "\n", "\n">>,
      <<"-", " ", "[", " ", "]", " ", "[", "T", "]", "(", "u", "/", "a", ")", " ", "[", "s", "i", "t", "e", ":", ":", " ", "d", "]", " ", "U+2795", " ", "2", "0", "2", "3", "-", "1", "2", "-", "3", "0", "\n", " ">> }

\* run(), lines 65-79: entries.push(...) of each feed's entries, in feed order
RECURSIVE Collect(_)
Collect(feeds) == IF feeds = <<>> THEN <<>> ELSE Head(feeds) \o Collect(Tail(feeds))

NoResult == [content |-> <<>>, count |-> 0, threw |-> FALSE, entries |-> <<>>]

InitMerge ==
    /\ PluginAtRest
    /\ \E es \in SeqsUpTo(MergeEntries, MaxEntries), k \in 0..MaxEntries, c \in MergeContents :
          /\ k <= Len(es)
          /\ call = [fn |-> "merge", stage |-> "input", content |-> c,
                     feeds |-> <<SubSeq(es, 1, k), SubSeq(es, k + 1, Len(es))>>,
                     entries |-> es, first |-> NoResult, second |-> NoResult]

MergeCall ==
    /\ call.fn = "merge" /\ call.stage = "input"
    /\ LET r == mergeEntriesWithContent(Collect(call.feeds), call.content) IN
          /\ call' = [call EXCEPT !.stage = "once", !.first = r, !.entries = r.entries]
          /\ totalNewEntries' = totalNewEntries + r.count
    /\ UNCHANGED <<clock, docs, cycles, notice, ended, ticks, inserted>>

MergeAgain ==
    /\ call.fn = "merge" /\ call.stage = "once" /\ ~call.first.threw
    /\ LET r == mergeEntriesWithContent(call.entries, call.first.content) IN
          /\ call' = [call EXCEPT !.stage = "twice", !.second = r, !.entries = r.entries]
          /\ totalNewEntries' = totalNewEntries + r.count
    /\ UNCHANGED <<clock, docs, cycles, notice, ended, ticks, inserted>>

NextMerge == MergeCall \/ MergeAgain

SpecMerge == InitMerge /\ [][NextMerge]_vars

-----------------------------------------------------------------------------
(* Claims about mergeEntriesWithContent, under SpecMerge *)

Merged == call.fn = "merge" /\ call.stage # "input"

\* C3 (merge idempotence): the second call, on the output of the first call
\* and with the same array of entries, returns that output unchanged, inserts
\* no line and adds nothing to the counter.
C3_MergeIdempotent ==
    (call.fn = "merge" /\ call.stage = "twice") =>
        /\ ~call.second.threw
        /\ call.second.content = call.first.content
        /\ call.second.count = 0
        /\ totalNewEntries = call.first.count

\* C3 witness: a second call after a first call that inserted two lines.
C3_Witness ==
    call.fn = "merge" /\ call.stage = "twice" /\ call.first.count >= 2

\* The entries in the order the loop of the first call took them, and the
\* loop's local state after its first k turns.
Taken == Reverse(Collect(call.feeds))
AfterTurns(k) ==
    MergeLoop([content |-> call.content, count |-> 0, threw |-> FALSE], SubSeq(Taken, 1, k))
LineAppended(k) ==
    /\ ~AfterTurns(k).threw
    /\ AfterTurns(k).content # AfterTurns(k - 1).content

\* C4 (dedup by link): in a merge, an entry gets a line appended if and only
\* if its link is not a substring of the content as it stands when the entry
\* is taken; the merge returns the content so built.
C4_AppendedIffLinkAbsent ==
    Merged =>
        /\ \A k \in 1..Len(Taken) :
              LineAppended(k) <=> ~Includes(AfterTurns(k - 1).content, Taken[k].link)
        /\ call.first.content = AfterTurns(Len(Taken)).content

\* The lines a merge appended to `before` to give `after`.
AppendedLines(before, after) ==
    IF after = before THEN <<>>
    ELSE SelectSeq(Split(SubSeq(after, Len(TrimEnd(before)) + 1, Len(after)), "\n"),
                   LAMBDA l : l # <<>>)

\* The line of an entry without its newlines.
LineOf(entry) == SubSeq(NewEntry(entry), 2, Len(NewEntry(entry)) - 1)

DigitValue(c) == CHOOSE n \in 0..9 : Digits[n + 1] = c
\* The date that ends a checklist line, YYYY-MM-DD, as the number YYYYMMDD.
LineDay(l) ==
    LET d == SubSeq(l, Len(l) - 9, Len(l))
        N(i, j) == 10 * DigitValue(d[i]) + DigitValue(d[j])
    IN  1000000 * N(1, 2) + 10000 * N(3, 4) + 100 * N(6, 7) + N(9, 10)

NonDecreasing(q) == \A i, j \in 1..Len(q) : i < j => q[i] <= q[j]

RECURSIVE IsSubSeq(_, _)
\* a is b with some elements left out
IsSubSeq(a, b) ==
    IF a = <<>> THEN TRUE
    ELSE IF b = <<>> THEN FALSE
    ELSE IF Head(a) = Head(b) THEN IsSubSeq(Tail(a), Tail(b))
    ELSE IsSubSeq(a, Tail(b))

FirstLines == AppendedLines(call.content, call.first.content)

\* C5 as stated (ordering): the lines one merge appends are in chronological
\* order, oldest first, whatever the order of the entries in their feeds and
\* however many feeds contributed.
C5_AlwaysChronological ==
    (Merged /\ ~call.first.threw) =>
        NonDecreasing([i \in 1..Len(FirstLines) |-> LineDay(FirstLines[i])])

NewestFirst(entries) ==
    \A i, j \in 1..Len(entries) :
        i < j => /\ entries[i].date.valid /\ entries[j].date.valid
                 /\ entries[i].date.t >= entries[j].date.t

\* C5 as amended: the lines one merge appends are in the reverse of the
\* order in which the entries were collected (the last feed's entries first,
\* each feed's entries in the reverse of the feed's order); they are in
\* chronological order, oldest first, when the collected list is newest first.
C5_ReverseOfCollected ==
    (Merged /\ ~call.first.threw) =>
        /\ Len(FirstLines) = call.first.count
        /\ IsSubSeq(FirstLines,
                    [i \in 1..Len(call.feeds[2]) |-> LineOf(Reverse(call.feeds[2])[i])]
                    \o [i \in 1..Len(call.feeds[1]) |-> LineOf(Reverse(call.feeds[1])[i])])
        /\ NewestFirst(Collect(call.feeds)) =>
              NonDecreasing([i \in 1..Len(FirstLines) |-> LineDay(FirstLines[i])])

\* C5 witness: both feeds contributed and the merge appended lines of both.
C5_Witness ==
    /\ Merged /\ ~call.first.threw
    /\ Len(call.feeds[1]) >= 1 /\ Len(call.feeds[2]) >= 1
    /\ call.first.count >= 2
    /\ \E i \in 1..Len(FirstLines) : FirstLines[i] = LineOf(call.feeds[1][1])
    /\ \E i \in 1..Len(FirstLines) : FirstLines[i] = LineOf(call.feeds[2][1])

\* The line the claim gives for an entry:
\* "- [ ] [<title>](<link>) [site:: <domain>] U+2795 <YYYY-MM-DD>",
\* the title being the entry's ISO date when it is empty.
ClaimedLine(entry) ==
    LET day == IsoDay(entry.date.t) IN
    <<"-", " ", "[", " ", "]", " ", "[">> \o (IF entry.title = <<>> THEN day ELSE entry.title)
    \o <<"]", "(">> \o entry.link \o <<")", " ", "[", "s", "i", "t", "e", ":", ":", " ">>
    \o entry.domain \o <<"]", " ", "U+2795", " ">> \o day

RECURSIVE ClaimedTail(_, _, _)
\* The lines of the entries picked (by position) from position k on, each
\* after a newline.
ClaimedTail(entries, picked, k) ==
    IF k > Len(entries) THEN <<>>
    ELSE (IF k \in picked THEN <<"\n">> \o ClaimedLine(entries[k]) ELSE <<>>)
         \o ClaimedTail(entries, picked, k + 1)

\* C13 (merge is append-only): what mergeEntriesWithContent returns is its
\* input content exactly when it inserted nothing; otherwise it is the input
\* content without its trailing white space, followed by one line per inserted
\* entry, in the form "- [ ] [title](link) [site:: domain] U+2795 YYYY-MM-DD"
\* with the ISO date for an empty title, each line after a newline, and a
\* final newline.  Nothing of the input before its trailing white space is
\* changed.
C13_AppendOnly ==
    (Merged /\ ~call.first.threw) =>
        IF call.first.count = 0
        THEN call.first.content = call.content
        ELSE \E picked \in SUBSET (1..Len(Taken)) :
                /\ Cardinality(picked) = call.first.count
                /\ call.first.content =
                      TrimEnd(call.content) \o ClaimedTail(Taken, picked, 1) \o <<"\n">>

\* C13 witness: a merge into a content that ends in white space inserted two
\* lines or more, one of them for an entry without title.
C13_Witness ==
    /\ Merged /\ ~call.first.threw
    /\ call.first.count >= 2
    /\ TrimEnd(call.content) # call.content /\ TrimEnd(call.content) # <<>>
    /\ \E k \in 1..Len(Taken) : LineAppended(k) /\ Taken[k].title = <<>>

\* The collected entries that have a link.
Linked == SelectSeq(Collect(call.feeds), LAMBDA e : e.link # <<>>)

\* C19 (empty link never inserted): an entry whose link is the empty string
\* is never appended and never counted, whatever the content: the merge
\* returns and counts what it does when these entries are left out of the
\* array, it counts no more lines than there are entries with a link, and
\* its output holds no line with an empty link, "]()".
C19_EmptyLinkNeverInserted ==
    Merged =>
        LET r == mergeEntriesWithContent(Linked, call.content) IN
        /\ call.first.threw = r.threw
        /\ call.first.content = r.content
        /\ call.first.count = r.count
        /\ call.first.count <= Len(Linked)
        /\ ~Includes(call.first.content, <<"]", "(", ")">>)

\* C19 witness: a merge into the empty content of an array that holds an
\* entry without link and an entry that was inserted.
C19_Witness ==
    /\ Merged /\ ~call.first.threw
    /\ call.content = <<>>
    /\ Len(Linked) < Len(Taken)
    /\ call.first.count >= 1

-----------------------------------------------------------------------------
(* Specification of removeOldEntries: one call on a content of a few lines *)

MaxLines == 3

CleanupLines ==
    { <<"#", " ", "h">>,
      <<>>,
      <<"-", " ", "[", " ", "]", " ", "a">>,
      <<"-", " ", "[", "x", "]", " ", "a", " ", "U+2705", " ", "2", "0", "2", "4", "-", "0", "1", "-", "0", "1">>,
      <<"-", " ", "[", "x", "]", " ", "b", " ", "U+2705", " ", "2", "0", "2", "4", "-", "0", "1", "-", "0", "2">>,
      <<"-", " ", "[", "x", "]", " ", "c">>,
      <<" ", "-", " ", "[", "x", "]", " ", "d", " ", "U+2705", " ", "2", "0", "2", "4", "-", "0", "1", "-", "0", "1">>,
      <<"-", " ", "[", " ", "]", " ", "e", " ", "U+2705", " ", "2", "0", "2", "4", "-", "0", "1", "-", "0", "1">> }

\* the current time of the run: on 2024-01-01, and an hour later on 2024-01-02
CleanupTimes == {T0, T0 + MinutesPerHour}

InitCleanup ==
    /\ PluginAtRest
    /\ \E ls \in SeqsUpTo(CleanupLines, MaxLines), t \in CleanupTimes :
          /\ Len(ls) >= 1
          /\ call = [fn |-> "cleanup", stage |-> "input", lines |-> ls,
                     content |-> Join(ls, "\n"), currentTime |-> t, result |-> <<>>]

CleanupCall ==
    /\ call.fn = "cleanup" /\ call.stage = "input"
    /\ call' = [call EXCEPT !.stage = "done",
                            !.result = removeOldEntries(call.content, call.currentTime)]
    /\ UNCHANGED <<clock, docs, cycles, totalNewEntries, notice, ended, ticks, inserted>>

NextCleanup == CleanupCall

SpecCleanup == InitCleanup /\ [][NextCleanup]_vars

-----------------------------------------------------------------------------
(* Claims about removeOldEntries, under SpecCleanup *)

IsCompleteLine(l) ==
    Len(l) >= 5 /\ l[1] = "-" /\ l[2] = " " /\ l[3] = "[" /\ l[4] = "x" /\ l[5] = "]"

\* The completion date tokens of a line: the ten characters after a check
\* mark and a space.
CompletionDates(l) ==
    { SubSeq(l, i + 2, i + 11) :
        i \in {k \in 1..Len(l) : k + 11 <= Len(l) /\ l[k] = "U+2705" /\ l[k + 1] = " "} }

Removed(l, currentTime) ==
    IsCompleteLine(l) /\ IsoDay(currentTime) \notin CompletionDates(l)

\* C6 (cleanup safety): removeOldEntries removes a line if and only if the
\* line starts with "- [x]" and carries no completion date token equal to the
\* current date of the run (a completed line without any token is removed);
\* a line that does not start with "- [x]" is never removed, and the lines
\* kept are unaltered and in their original order.
C6_CleanupSafety ==
    (call.fn = "cleanup" /\ call.stage = "done") =>
        LET out == Split(call.result, "\n")
            kept == SelectSeq(call.lines, LAMBDA l : ~Removed(l, call.currentTime))
        IN  /\ call.result = Join(kept, "\n")
            /\ IsSubSeq(SelectSeq(call.lines, LAMBDA l : ~IsCompleteLine(l)), out)
            /\ IsSubSeq(out, call.lines) \/ kept = <<>>
            /\ \A i \in 1..Len(call.lines) :
                  Removed(call.lines[i], call.currentTime) =>
                      Len(SelectSeq(out, LAMBDA l : l = call.lines[i]))
                          < Len(SelectSeq(call.lines, LAMBDA l : l = call.lines[i]))

\* C6 witness: a call that removed a completed line of another day and kept a
\* completed line of the current day and a line that is no checklist item.
C6_Witness ==
    /\ call.fn = "cleanup" /\ call.stage = "done"
    /\ \E i, j, k \in 1..Len(call.lines) :
          /\ Removed(call.lines[i], call.currentTime)
          /\ CompletionDates(call.lines[i]) # {}
          /\ IsCompleteLine(call.lines[j]) /\ ~Removed(call.lines[j], call.currentTime)
          /\ ~IsCompleteLine(call.lines[k])
    /\ Len(Split(call.result, "\n")) = Len(call.lines) - 1

-----------------------------------------------------------------------------
(* Specification of fetchFeedEntries: one call on one response *)

MaxRaw == 2

RawEntry(link, title, published) == [link |-> link, title |-> title, published |-> published]

MinutesPerYear == 365 * MinutesPerDay

FilterRaw ==
    { RawEntry(Str(LinkA), Str(<<"T">>), Str(DateOf(T0))),            \* published at T0
      RawEntry(Str(LinkC), Str(<<"T">>), Str(DateOf(T0 - 1))),        \* a minute before T0
      RawEntry(Str(<<"h", "t", "t", "p", ":", "/", "/", "a", "r", "x", "i", "v", ".", "o", "r", "g", "/", "1">>), Str(<<"T">>), Str(DateOf(T0 + 1))),
      RawEntry(Str(<<"h", "t", "t", "p", ":", "/", "/", "W", "W", "W", ".", "W", "S", "J", ".", "C", "O", "M", "/">>), Undefined, Str(DateOf(T0 + 1))),
      RawEntry(Str(LinkAB), Str(<<"W", "e", " ", "a", "r", "e", " ", "H", "i", "r", "i", "n", "g">>), Str(DateOf(T0 + 1))),
      RawEntry(Str(<<"u", "/", "n">>), Str(<<"T">>), Unpublished),    \* no publish date
      RawEntry(Undefined, Undefined, Str(DateOf(T0 + 1))) }           \* no link, no title

FilterWatermarks == {DateOf(T0), DateOf(T0 - MinutesPerYear)}

FeedUrlF == Url(<<"w", "w", "w", ".", "f", ".", "i", "o">>)
FilterFeedLinks == {NoUrl, BadUrl, Url(<<"s", ".", "i", "o">>)}

FilterResponses ==
    {Response(k, NoUrl, <<>>) : k \in {"reject", "empty", "malformed", "noentries"}}
    \cup {Response("feed", l, es) : l \in FilterFeedLinks, es \in SeqsUpTo(FilterRaw, MaxRaw)}

InitFilter ==
    /\ PluginAtRest
    /\ \E r \in FilterResponses, w \in FilterWatermarks, u \in {FeedUrlF, BadUrl} :
          /\ u = BadUrl => (r.kind = "feed" /\ Len(r.entries) <= 1)
          /\ call = [fn |-> "fetch", stage |-> "input", feedURL |-> u, lastSynced |-> w,
                     response |-> r, result |-> [threw |-> FALSE, entries |-> <<>>]]

FetchCall ==
    /\ call.fn = "fetch" /\ call.stage = "input"
    /\ call' = [call EXCEPT !.stage = "done",
                            !.result = fetchFeedEntries(call.feedURL, call.lastSynced,
                                                        call.response)]
    /\ UNCHANGED <<clock, docs, cycles, totalNewEntries, notice, ended, ticks, inserted>>

NextFilter == FetchCall

SpecFilter == InitFilter /\ [][NextFilter]_vars

-----------------------------------------------------------------------------
(* Claims about fetchFeedEntries, under SpecFilter *)

Returned == call.fn = "fetch" /\ call.stage = "done" /\ ~call.result.threw

\* p occurs in s when the case of the letters of s is ignored (p is lower case)
OccursIgnoringCase(s, p) ==
    \E i \in 0..(Len(s) - Len(p)) : \A j \in 1..Len(p) : LowerChar(s[i + j]) = p[j]

LinkListed(raw) ==
    raw.link.def /\ \E b \in blacklistedURLs : OccursIgnoringCase(raw.link.v, b)
TitleListed(raw) ==
    raw.title.def /\ \E b \in blacklistedStrings : OccursIgnoringCase(raw.title.v, b)

\* the published time of a raw entry is known and not before the watermark
PublishedSince(raw, w) ==
    raw.published.def /\ raw.published.v.valid /\ raw.published.v.t >= w.t
\* the published time of a raw entry is not known to be before the watermark
NotPublishedBefore(raw, w) ==
    ~(raw.published.def /\ raw.published.v.valid /\ raw.published.v.t < w.t)

\* The returned entries are the raw entries `chosen`, in order: link and
\* title as in the feed (the empty string when missing), the date parsed.
ReturnsExactly(chosen) ==
    /\ Len(call.result.entries) = Len(chosen)
    /\ \A i \in 1..Len(chosen) :
          /\ call.result.entries[i].link = (IF chosen[i].link.def THEN chosen[i].link.v ELSE <<>>)
          /\ call.result.entries[i].title = (IF chosen[i].title.def THEN chosen[i].title.v ELSE <<>>)
          /\ call.result.entries[i].date =
                (IF chosen[i].published.def THEN chosen[i].published.v ELSE InvalidDate)

Undated(raw) == ~raw.published.def \/ ~raw.published.v.valid

\* C17 (missing publish timestamp): the filter takes an entry without usable
\* publish time as published at epoch zero: it returns such an entry only
\* when the watermark is not later than epoch zero, and drops it otherwise.
C17_UndatedAsEpochZero ==
    Returned =>
        \A i \in 1..Len(call.response.entries) :
            LET raw == call.response.entries[i] IN
            (Undated(raw) /\ ~LinkListed(raw) /\ ~TitleListed(raw)) =>
                IF call.lastSynced.t <= 0
                THEN \E k \in 1..Len(call.result.entries) :
                        call.result.entries[k].link = OrEmpty(raw.link)
                ELSE \A k \in 1..Len(call.result.entries) :
                        call.result.entries[k].date.valid

-----------------------------------------------------------------------------
(* The cycle: run() driven by the timer                                    *)
(*                                                                         *)
(* run() is an async function: it gives up control only at its awaits      *)
(* (request, vault.read, vault.modify, processFrontMatter), and the code    *)
(* between two awaits runs as one step.  Each invocation is a record of    *)
(* `cycles`: pc names the await it is suspended at, the other fields are    *)
(* its locals; hist is the list of what it did, kept for the claims.       *)
(* The front matter (readlater_synced, readlater_feeds) is kept apart from *)
(* the text of the document, and the metadata cache always agrees with it. *)

MaxTicks == 2
MaxCycles == 2

TimerInterval == 5
SyncInterval == MinutesPerHour

\* the time between two ticks: the timer's period, or longer when the host
\* was suspended in between
TickGaps == {TimerInterval, MinutesPerHour}

\* what the host answers at the start of run(): the folder, and the status
\* of the sync plug-in (absent, "Fully synced", or anything else)
HostStates == {"nofolder", "nosyncplugin", "fully synced", "syncing"}

FeedUrls == [A |-> Url(<<"w", "w", "w", ".", "a", ".", "i", "o">>), B |-> Url(<<"b", ".", "i", "o">>)]

RawPast == RawEntry(Str(LinkA), Str(<<"T">>), Str(DateOf(T0 - MinutesPerDay)))
RawAhead == RawEntry(Str(LinkC), Str(<<>>), Str(DateOf(T0 + 2 * MinutesPerDay)))
RawOther == RawEntry(Str(LinkAB), Str(<<"B">>), Str(DateOf(T0 - 2 * MinutesPerDay)))
RawUndated == RawEntry(Str(<<"u", "/", "n">>), Str(<<"T">>), Unpublished)

\* what a fetch of each feed can give
FeedResponses ==
    [A |-> { Response("reject", NoUrl, <<>>),
             Response("feed", NoUrl, <<RawAhead, RawPast>>) },
     B |-> { Response("malformed", NoUrl, <<>>),
             Response("feed", Url(<<"s", ".", "i", "o">>), <<RawOther>>),
             Response("feed", Url(<<"s", ".", "i", "o">>), <<RawUndated>>) }]

Absent == [present |-> FALSE, t |-> 0]
SyncedAt(t) == [present |-> TRUE, t |-> t]
NoFeeds == [present |-> FALSE, urls |-> <<>>]
Feeds(urls) == [present |-> TRUE, urls |-> urls]

File(synced, feeds, content) ==
    [isFile |-> TRUE, synced |-> synced, feeds |-> feeds, content |-> content]
Folder == [isFile |-> FALSE, synced |-> Absent, feeds |-> NoFeeds, content |-> <<>>]

\* The text of the first document at the start: a heading and an item
\* completed on 2024-01-01.
StartContent == <<"#", " ", "h", "\n", "-", " ", "[", "x", "]", " ", "a", " ", "U+2705", " ", "2", "0", "2", "4", "-", "0", "1", "-", "0", "1", "\n">>

Event(doc, ev, n) == [doc |-> doc, ev |-> ev, n |-> n]
Log(c, doc, ev, n) == [c EXCEPT !.hist = Append(@, Event(doc, ev, n))]

NewCycle(now) ==
    [pc |-> "start", now |-> now, idx |-> 0, lastSynced |-> DateOf(0), feeds |-> <<>>,
     fi |-> 0, entries |-> <<>>, content |-> <<>>, cleaned |-> <<>>, hist |-> <<>>]

\* lines 110-119; dateNow is Date.now()
getSyncedTime(file, dateNow) ==
    IF ~file.synced.present \/ file.synced.t = 0
    THEN DateOf(dateNow - MinutesPerYear)
    ELSE DateOf(file.synced.t)

\* lines 121-124
getFeedURLs(file) == file.feeds

\* A variant of NotDue: every document is taken for due.
NotDueNever(now, lastSynced) == FALSE

\* line 53: the document is not due
NotDue(now, lastSynced) == now < lastSynced.t + SyncInterval

\* lines 44-66: from the top of the loop at child i to the next await (the
\* request of the first feed, or vault.read when the feed list is empty),
\* or to the end of the loop
RECURSIVE NextFile(_, _, _, _)
NextFile(c, i, files, dateNow) ==
    IF i > Len(files) THEN [c EXCEPT !.pc = "end", !.idx = i]
    ELSE IF ~files[i].isFile THEN NextFile(Log(c, i, "dir", 0), i + 1, files, dateNow)
    ELSE LET lastSynced == getSyncedTime(files[i], dateNow)
             feeds == getFeedURLs(files[i])
         IN  IF NotDue(c.now, lastSynced)
             THEN NextFile(Log(c, i, "notdue", lastSynced.t), i + 1, files, dateNow)
             ELSE IF ~feeds.present
             THEN NextFile(Log(c, i, "nofeeds", lastSynced.t), i + 1, files, dateNow)
             ELSE [Log(c, i, "due", lastSynced.t) EXCEPT
                       !.pc = IF feeds.urls = <<>> THEN "read" ELSE "fetch",
                       !.idx = i, !.lastSynced = lastSynced, !.feeds = feeds.urls,
                       !.fi = 1, !.entries = <<>>]

Without(q, i) == SubSeq(q, 1, i - 1) \o SubSeq(q, i + 1, Len(q))

Note(kind, n) == [kind |-> kind, n |-> n]

\* lines 102-107: the summary, and the counter set back to 0
Summary(total) == IF total > 0 THEN <<Note("summary", total)>> ELSE <<>>

\* The invocation c goes on (at slot i of cycles, or new when i = 0) or,
\* at the end of the loop, ends with the summary.
Continue(c, i, total, notes) ==
    IF c.pc = "end"
    THEN /\ cycles' = (IF i = 0 THEN cycles ELSE Without(cycles, i))
         /\ notice' = notes \o Summary(total)
         /\ totalNewEntries' = 0
         /\ ended' = [how |-> "done", now |-> c.now, hist |-> c.hist, summary |-> total]
    ELSE /\ cycles' = (IF i = 0 THEN Append(cycles, c) ELSE [cycles EXCEPT ![i] = c])
         /\ notice' = notes
         /\ totalNewEntries' = total
         /\ ended' = NoEnd

\* An exception nobody catches: the promise of run() is rejected and the
\* invocation is over, without summary and without resetting the counter.
Crash(c, i, total) ==
    /\ cycles' = Without(cycles, i)
    /\ notice' = <<>>
    /\ totalNewEntries' = total
    /\ ended' = [how |-> "crashed", now |-> c.now, hist |-> c.hist, summary |-> 0]

Init ==
    /\ clock = T0
    /\ ticks = 0
    /\ \E feeds3 \in {NoFeeds, Feeds(<<"A">>)} :
          docs = << File(Absent, Feeds(<<"A", "B">>), StartContent),
                    Folder,
                    File(SyncedAt(T0 - 6 * TimerInterval), feeds3, <<>>) >>
    /\ cycles = <<>>
    /\ totalNewEntries = 0
    /\ notice = <<>>
    /\ ended = NoEnd
    /\ call = NoCall
    /\ inserted = {}

\* lines 27-66: run() is called, `gap` after the call before, and goes to its
\* first await or to its end
run(gap, host) ==
    /\ clock' = clock + gap
    /\ ticks' = ticks + 1
    /\ UNCHANGED <<docs, call, inserted>>
    /\ IF host = "nofolder"
       THEN /\ notice' = <<Note("nofolder", 0)>>
            /\ ended' = [how |-> "nofolder", now |-> clock', hist |-> <<>>, summary |-> 0]
            /\ UNCHANGED <<cycles, totalNewEntries>>
       ELSE IF host = "syncing"
       THEN /\ notice' = <<>>
            /\ ended' = [how |-> "unsynced", now |-> clock', hist |-> <<>>, summary |-> 0]
            /\ UNCHANGED <<cycles, totalNewEntries>>
       ELSE Continue(NextFile(NewCycle(clock'), 1, docs, clock'), 0, totalNewEntries, <<>>)

\* lines 20-22: the timer fires and calls run(), whether or not an earlier
\* call is still in progress
Tick(gap, host) ==
    /\ ticks < MaxTicks
    /\ Len(cycles) < MaxCycles
    /\ run(gap, host)

\* lines 66-79: the request of a feed is answered; the next feed is
\* requested, or vault.read is called
FetchReturn(i, response) ==
    /\ i \in 1..Len(cycles)
    /\ cycles[i].pc = "fetch"
    /\ LET c == cycles[i]
           feed == c.feeds[c.fi]
           r == fetchFeedEntries(FeedUrls[feed], c.lastSynced, response)
       IN  /\ response \in FeedResponses[feed]
           /\ cycles' = [cycles EXCEPT ![i] =
                 [Log(c, c.idx, IF r.threw THEN "fetchfailed" ELSE "fetched", c.fi) EXCEPT
                     !.entries = IF r.threw THEN @ ELSE @ \o r.entries,
                     !.fi = @ + 1,
                     !.pc = IF c.fi < Len(c.feeds) THEN "fetch" ELSE "read"]]
           /\ notice' = IF r.threw THEN <<Note("feederror", c.fi)>> ELSE <<>>
    /\ ended' = NoEnd
    /\ UNCHANGED <<clock, docs, totalNewEntries, ticks, call, inserted>>

\* A variant of Changed: the content is always taken for changed.
ChangedAlways(content, cleanedContent) == TRUE

\* line 93: the cleaned content is not the content read
Changed(content, cleanedContent) == content # cleanedContent

\* lines 82-96: vault.read is answered; merge and cleanup; vault.modify is
\* called when the text changed, else processFrontMatter
ReadReturn(i, ok) ==
    /\ i \in 1..Len(cycles)
    /\ cycles[i].pc = "read"
    /\ LET c == cycles[i]
           content == docs[c.idx].content
           merged == mergeEntriesWithContent(c.entries, content)
           cleaned == removeOldEntries(merged.content, c.now)
       IN  IF ~ok THEN Crash(Log(c, c.idx, "readfailed", 0), i, totalNewEntries)
           ELSE IF merged.threw
           THEN Crash(Log(Log(c, c.idx, "read", 0), c.idx, "mergefailed", 0), i, totalNewEntries)
           ELSE /\ cycles' = [cycles EXCEPT ![i] =
                      [Log(Log(c, c.idx, "read", 0), c.idx, "merged", merged.count) EXCEPT
                          !.entries = merged.entries,
                          !.content = content,
                          !.cleaned = cleaned,
                          !.pc = IF Changed(content, cleaned) THEN "modify" ELSE "update"]]
                /\ totalNewEntries' = totalNewEntries + merged.count
                /\ notice' = <<>>
                /\ ended' = NoEnd
    /\ UNCHANGED <<clock, docs, ticks, call, inserted>>

\* The lines that the write of invocation c puts into its document: those
\* of its entries whose link was not in the text read and whose line is in
\* the text written.
WrittenLines(c) ==
    { [doc |-> c.idx, link |-> c.entries[k].link, now |-> c.now, since |-> c.lastSynced.t] :
        k \in { j \in 1..Len(c.entries) :
                  /\ ~Includes(c.content, c.entries[j].link)
                  /\ Includes(c.cleaned, <<"]", "(">> \o c.entries[j].link \o <<")">>) } }

\* lines 93-99: vault.modify is answered; processFrontMatter is called
ModifyReturn(i, ok) ==
    /\ i \in 1..Len(cycles)
    /\ cycles[i].pc = "modify"
    /\ LET c == cycles[i] IN
       IF ~ok
       THEN /\ Crash(Log(c, c.idx, "writefailed", 0), i, totalNewEntries)
            /\ UNCHANGED <<docs, inserted>>
       ELSE /\ docs' = [docs EXCEPT ![c.idx].content = c.cleaned]
            /\ inserted' = inserted \cup WrittenLines(c)
            /\ cycles' = [cycles EXCEPT ![i] = [Log(c, c.idx, "written", 0) EXCEPT !.pc = "update"]]
            /\ notice' = <<>>
            /\ ended' = NoEnd
            /\ UNCHANGED totalNewEntries
    /\ UNCHANGED <<clock, ticks, call>>

\* A variant of updateSyncedTime: the watermark is set even when
\* processFrontMatter fails.
updateSyncedTimeAnyway(file, currentTime, ok) ==
    [file EXCEPT !.synced = SyncedAt(currentTime)]

\* lines 198-213: what processFrontMatter leaves in the front matter
updateSyncedTime(file, currentTime, ok) ==
    IF ok THEN [file EXCEPT !.synced = SyncedAt(currentTime)] ELSE file

\* lines 99-108 and 44-66: processFrontMatter is answered (a failure is
\* caught and reported); the loop goes on with the next child, to the next
\* await or to the summary
UpdateReturn(i, ok) ==
    /\ i \in 1..Len(cycles)
    /\ cycles[i].pc = "update"
    /\ LET c == cycles[i]
           files == [docs EXCEPT ![c.idx] = updateSyncedTime(@, c.now, ok)]
           logged == Log(c, c.idx, IF ok THEN "stamped" ELSE "stampfailed", c.now)
       IN  /\ docs' = files
           /\ Continue(NextFile(logged, c.idx + 1, files, clock), i, totalNewEntries,
                       IF ok THEN <<>> ELSE <<Note("stamperror", c.idx)>>)
    /\ UNCHANGED <<clock, ticks, call, inserted>>

Next ==
    \/ \E gap \in TickGaps, host \in HostStates : Tick(gap, host)
    \/ \E i \in 1..MaxCycles : \E response \in FeedResponses.A \cup FeedResponses.B :
          FetchReturn(i, response)
    \/ \E i \in 1..MaxCycles, ok \in BOOLEAN : ReadReturn(i, ok)
    \/ \E i \in 1..MaxCycles, ok \in BOOLEAN : ModifyReturn(i, ok)
    \/ \E i \in 1..MaxCycles, ok \in BOOLEAN : UpdateReturn(i, ok)

Spec == Init /\ [][Next]_vars

-----------------------------------------------------------------------------
(* The cycle and the user: every call of run() finishes before the timer   *)
(* fires again, no read or write fails, and between two cycles the user    *)
(* completes items of the documents.                                       *)

MaxUserTicks == 3

\* lines 20-22: the timer fires when no call of run() is in progress
TickIdle(gap) ==
    /\ ticks < MaxUserTicks
    /\ cycles = <<>>
    /\ run(gap, "fully synced")

\* The user completes the open item on line k of document d: "- [ ]" becomes
\* "- [x]" and the completion mark with the day is put at the end of the
\* line, the form that removeOldEntries looks for (lines 223-224).
UserComplete(d, k) ==
    /\ cycles = <<>>
    /\ d \in 1..Len(docs) /\ docs[d].isFile
    /\ LET lines == Split(docs[d].content, "\n") IN
          /\ k \in 1..Len(lines)
          /\ StartsWith(lines[k], IncompleteMarker)
          /\ docs' = [docs EXCEPT ![d].content =
                Join([lines EXCEPT ![k] =
                         CompleteMarker \o SubSeq(@, Len(IncompleteMarker) + 1, Len(@))
                         \o <<" ">> \o DoneMark \o IsoDay(clock)], "\n")]
    /\ notice' = <<>>
    /\ ended' = NoEnd
    /\ UNCHANGED <<clock, cycles, totalNewEntries, ticks, call, inserted>>

NextUser ==
    \/ \E gap \in TickGaps : TickIdle(gap)
    \/ \E response \in FeedResponses.A \cup FeedResponses.B : FetchReturn(1, response)
    \/ ReadReturn(1, TRUE)
    \/ ModifyReturn(1, TRUE)
    \/ UpdateReturn(1, TRUE)
    \/ \E d \in 1..3, k \in 1..4 : UserComplete(d, k)

SpecUser == Init /\ [][NextUser]_vars

\* C18 (no re-insertion after pruning): once a cycle has written a line for
\* a link into a document and the document's watermark has been set by that
\* cycle or a later one, no later cycle writes a line for the same link into
\* that document, the feeds reporting the same entries all along.
C18_NeverInsertedAgain ==
    \A r1, r2 \in inserted :
        (r1.doc = r2.doc /\ r1.link = r2.link /\ r1.now < r2.now) => r2.since < r1.now

-----------------------------------------------------------------------------
(* Claims about the cycle, under Spec *)

\* C1 (watermark monotonicity): every value written to readlater_synced is
\* greater than or equal to the value stored just before the write.
C1_WatermarkNeverRolledBack ==
    [][\A d \in 1..Len(docs) :
          (docs[d].synced.present /\ docs'[d].synced # docs[d].synced) =>
              (docs'[d].synced.present /\ docs'[d].synced.t >= docs[d].synced.t)]_vars

\* C2 (cycles do not overlap): at any moment at most one invocation of run()
\* is in progress.
C2_AtMostOneCycle == Len(cycles) <= 1

\* The events of document d in a history, of the given kinds.
EventsOf(hist, d, kinds) == SelectSeq(hist, LAMBDA e : e.doc = d /\ e.ev \in kinds)
Has(hist, d, kinds) == EventsOf(hist, d, kinds) # <<>>

CycleEnded == ended.how \in {"done", "crashed"}
FetchKinds == {"fetched", "fetchfailed"}

\* C8 (scheduler gate): a document is synced in a cycle only if
\* now >= watermark + 1 hour, with now captured at the start of the cycle and
\* an absent watermark resolved to one year before the present; and a
\* document with a feed list for which now >= watermark + 1 hour is synced in
\* that cycle: its feeds fetched, its content merged, its watermark written.
C8_SyncedIffDue ==
    /\ \A i \in 1..Len(cycles) : \A k \in 1..Len(cycles[i].hist) :
          LET e == cycles[i].hist[k] IN
          /\ e.ev = "due" => cycles[i].now >= e.n + SyncInterval
          /\ e.ev = "notdue" => cycles[i].now < e.n + SyncInterval
          /\ e.ev \in FetchKinds \cup {"read", "merged", "written", "stamped"} =>
                \E j \in 1..(k - 1) : cycles[i].hist[j] = Event(e.doc, "due", cycles[i].hist[j].n)
    /\ CycleEnded =>
          \A d \in 1..Len(docs) :
              LET reached == \E k \in 1..Len(ended.hist) : ended.hist[k].doc = d
                  due == IF reached THEN Has(ended.hist, d, {"due"})
                         ELSE /\ docs[d].isFile /\ docs[d].feeds.present
                              /\ ended.now >= getSyncedTime(docs[d], clock).t + SyncInterval
              IN  due =>
                    /\ Len(EventsOf(ended.hist, d, FetchKinds)) = Len(docs[d].feeds.urls)
                    /\ Has(ended.hist, d, {"merged"})
                    /\ Has(ended.hist, d, {"stamped"})

\* C9 (feed failure isolation): when the fetch of one feed of a document
\* fails, the remaining feeds of the document are still fetched in the
\* cycle, the entries of the feeds that succeeded are merged into the
\* document, and the following documents of the cycle are processed.
C9_FeedFailureIsolated ==
    CycleEnded =>
        \A d \in 1..Len(docs) :
            Has(ended.hist, d, {"fetchfailed"}) =>
                /\ Len(EventsOf(ended.hist, d, FetchKinds)) = Len(docs[d].feeds.urls)
                /\ Has(ended.hist, d, {"merged"})
                /\ \A later \in (d + 1)..Len(docs) :
                      \E k \in 1..Len(ended.hist) : ended.hist[k].doc = later

\* C10 (unconditional watermark advance): for every document that is due and
\* has a feed list, by the end of the cycle the watermark has been written
\* exactly once, to the time captured at the start of the cycle, and only
\* after all the fetch attempts for the document.
C10_StampedOnceAfterFetches ==
    CycleEnded =>
        \A d \in 1..Len(docs) :
            Has(ended.hist, d, {"due"}) =>
                /\ EventsOf(ended.hist, d, {"stamped"}) = <<Event(d, "stamped", ended.now)>>
                /\ Len(EventsOf(ended.hist, d, FetchKinds)) = Len(docs[d].feeds.urls)
                /\ \A j, k \in 1..Len(ended.hist) :
                      (ended.hist[j] = Event(d, "stamped", ended.now)
                       /\ ended.hist[k].doc = d /\ ended.hist[k].ev \in FetchKinds) => k < j

\* C11 (failure containment): no failure raised while a document is
\* processed (a feed's retrieval or parsing, the formatting of an entry in the
\* merge, the read or the write of the content, the write of the watermark)
\* ends the cycle: the invocation goes through every child of the folder and
\* reaches its summary step.
C11_FailuresContained ==
    CycleEnded =>
        /\ ended.how = "done"
        /\ \A d \in 1..Len(docs) : \E k \in 1..Len(ended.hist) : ended.hist[k].doc = d

\* The history of the invocation c after the step (an invocation is known by
\* its now: two invocations never start at the same time).
HistAfter(c) ==
    IF \E j \in 1..Len(cycles') : cycles'[j].now = c.now
    THEN cycles'[CHOOSE j \in 1..Len(cycles') : cycles'[j].now = c.now].hist
    ELSE IF ended'.now = c.now THEN ended'.hist ELSE c.hist

\* The step is one of invocation c, and what it did.
StepDid(c, ev) ==
    /\ Len(HistAfter(c)) > Len(c.hist)
    /\ HistAfter(c)[Len(c.hist) + 1].ev = ev

\* C12 (malformed header handling): when the write of a document's watermark
\* fails, the failure is caught and reported, the document's watermark keeps
\* its value, the content written for the document stays as it is, and the
\* cycle goes on with the next child of the folder (or to its summary after
\* the last one).
C12_StampFailureKeptLocal ==
    [][\A i \in 1..Len(cycles) :
          LET c == cycles[i] IN
          (c.pc = "update" /\ StepDid(c, "stampfailed")) =>
              /\ \E k \in 1..Len(notice') : notice'[k] = Note("stamperror", c.idx)
              /\ docs'[c.idx].synced = docs[c.idx].synced
              /\ docs'[c.idx].content = docs[c.idx].content
              /\ ended'.how # "crashed"
              /\ IF c.idx < Len(docs)
                 THEN HistAfter(c)[Len(c.hist) + 2].doc = c.idx + 1
                 ELSE ended'.how = "done" /\ ended'.now = c.now]_vars

\* C12 witness: a cycle wrote the content of document 1, failed to write its
\* watermark, and went on to document 3 and to its end.
C12_Witness ==
    /\ ended.how = "done"
    /\ Has(ended.hist, 1, {"written"})
    /\ Has(ended.hist, 1, {"stampfailed"})
    /\ ~docs[1].synced.present
    /\ docs[1].content # StartContent
    /\ Has(ended.hist, 3, {"due", "notdue", "nofeeds"})

RECURSIVE InsertedIn(_)
\* The number of lines the merges of a history inserted.
InsertedIn(hist) ==
    IF hist = <<>> THEN 0
    ELSE (IF Head(hist).ev = "merged" THEN Head(hist).n ELSE 0) + InsertedIn(Tail(hist))

Summaries == SelectSeq(notice, LAMBDA n : n.kind = "summary")

\* C14 (end-of-cycle summary): a cycle that reaches its end emits one summary
\* notification if it inserted at least one line and none otherwise, the
\* number in it is the number of lines the cycle inserted over all documents,
\* and the inserted-entry counter is 0 whenever no cycle is in progress.
C14_SummaryCountsCycle ==
    /\ cycles = <<>> => totalNewEntries = 0
    /\ ended.how = "done" =>
          /\ Len(Summaries) = (IF InsertedIn(ended.hist) > 0 THEN 1 ELSE 0)
          /\ \A k \in 1..Len(Summaries) : Summaries[k].n = InsertedIn(ended.hist)

\* The invocation c after a step that leaves it in progress.
CycleAfter(c) == cycles'[CHOOSE j \in 1..Len(cycles') : cycles'[j].now = c.now]

\* The text holds a completed line that is not marked with the day of `now`.
HasRemovable(text, now) ==
    \E k \in 1..Len(Split(text, "\n")) :
        LET l == Split(text, "\n")[k] IN
        StartsWith(l, <<"-", " ", "[", "x", "]">>) /\ ~Includes(l, <<"U+2705", " ">> \o IsoDay(now))

\* C15 (write only on change): for a document synced in a cycle, the merge
\* runs once, on the text read, and the cleanup once, on the result of the
\* merge; a write of the content is issued if and only if the merged and
\* cleaned text differs from the text read, and it writes that text; when no
\* entry is inserted and no completed line is removed no write is issued;
\* and no other step of the cycle changes the text of a document.
C15_WriteOnlyOnChange ==
    [][\A i \in 1..Len(cycles) :
          LET c == cycles[i]
              d == c.idx
              text == docs[d].content
          IN  /\ (c.pc = "read" /\ StepDid(c, "read") /\ ended'.how # "crashed") =>
                    LET after == CycleAfter(c)
                        merged == HistAfter(c)[Len(c.hist) + 2]
                    IN  /\ merged.ev = "merged" /\ merged.doc = d
                        /\ Len(EventsOf(after.hist, d, {"merged"})) = 1
                        /\ after.content = text
                        /\ after.cleaned =
                              removeOldEntries(mergeEntriesWithContent(c.entries, text).content, c.now)
                        /\ after.pc = (IF after.cleaned # text THEN "modify" ELSE "update")
                        /\ (merged.n = 0 /\ ~HasRemovable(text, c.now)) =>
                              (after.cleaned = text /\ after.pc = "update")
                        /\ docs' = docs
              /\ (c.pc = "modify" /\ StepDid(c, "written")) =>
                    /\ c.cleaned # c.content
                    /\ docs' = [docs EXCEPT ![d].content = c.cleaned]
              /\ (c.pc = "modify" /\ StepDid(c, "writefailed")) => docs' = docs
              /\ (c.pc \in {"fetch", "update"} /\ Len(HistAfter(c)) > Len(c.hist)) =>
                    \A e \in 1..Len(docs) : docs'[e].content = docs[e].content]_vars

\* C15 witness: a cycle that wrote the text of document 1 (its completed line
\* of the day before was removed) and merged document 3 without inserting or
\* removing anything, and so without writing it.
C15_Witness ==
    /\ ended.how = "done"
    /\ Has(ended.hist, 1, {"written"})
    /\ docs[1].content # StartContent
    /\ EventsOf(ended.hist, 3, {"merged"}) = <<Event(3, "merged", 0)>>
    /\ ~Has(ended.hist, 3, {"written", "writefailed"})
    /\ docs[3].content = <<>>

SkipKinds == {"dir", "notdue", "nofeeds"}

\* C16 (skipped work leaves state unchanged): a cycle that finds no folder,
\* or the host's storage not fully synchronized, starts nothing and changes
\* no document; a cycle fetches, reads or writes only for a document that is
\* a file with a feed list and that its gate found due (now >= watermark + 1
\* hour), never for a child it skipped; and a document changes (content or
\* watermark) only in a step of a cycle that is writing that document.
C16_SkippedUntouched ==
    [][/\ (ticks' # ticks /\ ended'.how \in {"nofolder", "unsynced"}) =>
              (docs' = docs /\ cycles' = cycles /\ ended'.hist = <<>>)
       /\ \A i \in 1..Len(cycles) :
              LET c == cycles[i]
                  d == c.idx
              IN  /\ docs[d].isFile /\ docs[d].feeds.present
                  /\ \E k \in 1..Len(c.hist) :
                        /\ c.hist[k].doc = d /\ c.hist[k].ev = "due"
                        /\ c.now >= c.hist[k].n + SyncInterval
                  /\ \A k \in 1..Len(c.hist) :
                        (c.hist[k].ev \in SkipKinds \/ (c.hist[k].ev = "due" /\ k < Len(c.hist)))
                            => c.hist[k].doc <= d
                  /\ \A k \in 1..Len(c.hist) : c.hist[k].ev \in SkipKinds => c.hist[k].doc # d
       /\ \A d \in 1..Len(docs) :
              docs'[d] # docs[d] =>
                  \E i \in 1..Len(cycles) :
                      /\ cycles[i].idx = d /\ cycles[i].pc \in {"modify", "update"}
                      /\ Len(HistAfter(cycles[i])) > Len(cycles[i].hist)]_vars

\* C16 witness: a cycle that synced document 1 and skipped the directory and
\* document 3, which has feeds but was not due; document 3 is as at the start.
C16_Witness ==
    /\ ended.how = "done"
    /\ Has(ended.hist, 1, {"stamped"})
    /\ Has(ended.hist, 2, {"dir"})
    /\ Has(ended.hist, 3, {"notdue"})
    /\ docs[3] = File(SyncedAt(T0 - 6 * TimerInterval), Feeds(<<"A">>), <<>>)
    /\ docs[2] = Folder

====
